---- MODULE Spec2Model ----
(***************************************************************************)
(* Model of ProcessFile (src/main.go): a buffered reader cuts the input    *)
(* into chunks, one goroutine per chunk parses its lines and folds them    *)
(* into a shared sync.Map through StatsMap.Set, the main goroutine waits   *)
(* on a WaitGroup and then sorts the keys and prints the report.  The      *)
(* chunk buffers come from a sync.Pool and go back to it once decoded.     *)
(* naiveImplementation (src/unnamed/part_000), the sequential version, is  *)
(* modelled as a function of the input.                                    *)
(*                                                                         *)
(* Bytes are their ASCII codes, strings are sequences of bytes.  A float64 *)
(* is a record: a finite value (-1)^neg * m * 2^e with m an odd natural    *)
(* number kept in limbs, an infinity or NaN.  Its operations (+, *, /,     *)
(* math.Min, math.Max, math.Round, ParseFloat, Sprintf("%.1f")) give the   *)
(* IEEE 754 result, rounded to nearest even, signed zeros, subnormals,     *)
(* overflow and NaN included.  The input values of the model are whole     *)
(* numbers, numbers with one fraction digit and 0.04, a number with two    *)
(* fraction digits that is not a float64 and not a whole number of tenths. *)
(***************************************************************************)
EXTENDS Integers, Sequences, FiniteSets

\* ------------------------------------------------------------------ bounds
MaxLines == 2
MaxBytes == 11
MaxBlock == 4
defaultBufSize == 3
\* the available parallelism: the number of processors of the machine
NumCPU == 1

\* ------------------------------------------------------------------- bytes
NL == 10
SEMI == 59

Min2(a, b) == IF a < b THEN a ELSE b

Abs(n) == IF n < 0 THEN -n ELSE n

\* bytes s[from..] up to the end
Tail_from(s, from) == SubSeq(s, from, Len(s))

\* index of the first occurrence of byte c in s at or after index from, 0 if none
RECURSIVE IndexFrom(_, _, _)
IndexFrom(s, c, from) ==
  IF from > Len(s) THEN 0
  ELSE IF s[from] = c THEN from
  ELSE IndexFrom(s, c, from + 1)

\* strings.Split(s, sep) for a one-byte separator: always at least one token
RECURSIVE Split(_, _)
Split(s, sep) ==
  LET i == IndexFrom(s, sep, 1) IN
    IF i = 0 THEN <<s>>
    ELSE <<SubSeq(s, 1, i - 1)>> \o Split(Tail_from(s, i + 1), sep)

\* bytewise lexicographic order of Go strings: a < b
RECURSIVE StrLess(_, _)
StrLess(a, b) ==
  IF Len(b) = 0 THEN FALSE
  ELSE IF Len(a) = 0 THEN TRUE
  ELSE IF a[1] # b[1] THEN a[1] < b[1]
  ELSE StrLess(Tail(a), Tail(b))

\* ------------------------------------------------------------- iteration
\* v, computed once, handed to F
Bind(v, F(_)) == CHOOSE y \in {F(w) : w \in {v}} : TRUE

\* F applied n times to s
RECURSIVE Iterate(_, _, _)
Iterate(F(_), s, n) ==
  IF n <= 0 THEN s
  ELSE IF n = 1 THEN Bind(s, F)
  ELSE Bind(n \div 2,
            LAMBDA h : Bind(Iterate(F, s, h), LAMBDA t : Iterate(F, t, n - h)))

\* ----------------------------------------------------------- big naturals
\* A natural number of any size is the sequence of its digits in base Limb,
\* the least significant first and the most significant not 0; 0 is <<>>.
Limb == 32768

LimbBits == 15

RECURSIVE Pow(_, _)
Pow(b, k) == IF k <= 0 THEN 1 ELSE b * Pow(b, k - 1)

\* the number of binary digits of n >= 0 (0 for 0)
RECURSIVE BitLen(_)
BitLen(n) == IF n = 0 THEN 0 ELSE 1 + BitLen(n \div 2)

RECURSIVE BigOfInt(_)
BigOfInt(n) == IF n = 0 THEN <<>> ELSE <<n % Limb>> \o BigOfInt(n \div Limb)

\* limb i of a, 0 beyond its length
LimbAt(a, i) == IF i <= Len(a) THEN a[i] ELSE 0

\* a without zero limbs at the most significant end
BigTrim(a) ==
  IF \A i \in 1..Len(a) : a[i] = 0 THEN <<>>
  ELSE SubSeq(a, 1, CHOOSE i \in 1..Len(a) :
                       a[i] # 0 /\ \A j \in (i + 1)..Len(a) : a[j] = 0)

\* -1, 0, 1 as a < b, a = b, a > b
BigCmp(a, b) ==
  IF Len(a) # Len(b) THEN (IF Len(a) < Len(b) THEN -1 ELSE 1)
  ELSE IF a = b THEN 0
  ELSE LET t == CHOOSE i \in 1..Len(a) :
                  a[i] # b[i] /\ \A j \in (i + 1)..Len(a) : a[j] = b[j]
       IN  IF a[t] < b[t] THEN -1 ELSE 1

\* the limbs s.out with one more, the low digit of t, and the carry of t
Carried(s, t) == [out |-> Append(s.out, t % Limb), c |-> t \div Limb]

\* one limb of a + b: s.out the limbs so far, s.c the carry
AddStep(a, b, s) ==
  Carried(s, LimbAt(a, Len(s.out) + 1) + LimbAt(b, Len(s.out) + 1) + s.c)

BigAdd(a, b) ==
  IF Len(a) <= 1 /\ Len(b) <= 1 THEN BigOfInt(LimbAt(a, 1) + LimbAt(b, 1))
  ELSE
  Bind(Iterate(LAMBDA t : AddStep(a, b, t), [out |-> <<>>, c |-> 0],
               IF Len(a) > Len(b) THEN Len(a) ELSE Len(b)),
       LAMBDA s : IF s.c = 0 THEN s.out ELSE Append(s.out, s.c))

\* one limb of a - b: s.c the borrow
SubStep(a, b, s) ==
  Bind(LimbAt(a, Len(s.out) + 1) - LimbAt(b, Len(s.out) + 1) - s.c,
       LAMBDA t : [out |-> Append(s.out, t % Limb),
                   c |-> IF t < 0 THEN 1 ELSE 0])

\* a - b for a >= b
BigSub(a, b) ==
  IF Len(a) <= 1 THEN BigOfInt(LimbAt(a, 1) - LimbAt(b, 1))
  ELSE
  Bind(Iterate(LAMBDA t : SubStep(a, b, t), [out |-> <<>>, c |-> 0],
               Len(a)).out,
       BigTrim)

\* one limb of a * k
MulStep(a, k, s) == Carried(s, a[Len(s.out) + 1] * k + s.c)

\* a * k for 0 <= k <= Limb
BigMulSmall(a, k) ==
  IF k = 0 THEN <<>>
  ELSE IF Len(a) <= 1 THEN BigOfInt(LimbAt(a, 1) * k)
  ELSE Bind(Iterate(LAMBDA t : MulStep(a, k, t), [out |-> <<>>, c |-> 0],
                    Len(a)),
            LAMBDA s : s.out \o BigOfInt(s.c))

Zeros(n) == [i \in 1..n |-> 0]

\* a * b^k
BigMulPow(a, b, k) == Iterate(LAMBDA t : BigMulSmall(t, b), a, k)

\* the product so far plus a times limb s.i of b
MulLimbStep(a, b, s) ==
  [i |-> s.i + 1,
   acc |-> IF b[s.i] = 0 THEN s.acc
           ELSE Bind(Zeros(s.i - 1) \o BigMulSmall(a, b[s.i]),
                     LAMBDA p : BigAdd(s.acc, p))]

BigMul(a, b) ==
  IF Len(a) = 0 THEN <<>>
  ELSE Iterate(LAMBDA t : MulLimbStep(a, b, t), [i |-> 1, acc |-> <<>>],
               Len(b)).acc

\* one limb of a \div k, from the most significant limb down: s.r the remainder
DivStep(a, k, s) ==
  Bind(s.r * Limb + a[Len(a) - Len(s.q)],
       LAMBDA t : [q |-> <<t \div k>> \o s.q, r |-> t % k])

\* quotient and remainder of a by k, 1 <= k <= Limb
BigDivSmall(a, k) ==
  IF Len(a) <= 1
    THEN [q |-> BigOfInt(LimbAt(a, 1) \div k), r |-> LimbAt(a, 1) % k]
  ELSE
  Bind(Iterate(LAMBDA t : DivStep(a, k, t), [q |-> <<>>, r |-> 0], Len(a)),
       LAMBDA s : [q |-> BigTrim(s.q), r |-> s.r])

\* a * 2^n
BigShl(a, n) ==
  IF Len(a) = 0 THEN <<>>
  ELSE Zeros(n \div LimbBits) \o BigMulSmall(a, Pow(2, n % LimbBits))

\* a \div 2^n
BigShr(a, n) ==
  IF n \div LimbBits >= Len(a) THEN <<>>
  ELSE Bind(SubSeq(a, n \div LimbBits + 1, Len(a)),
            LAMBDA h : BigDivSmall(h, Pow(2, n % LimbBits)).q)

BigBitLen(a) ==
  IF Len(a) = 0 THEN 0 ELSE LimbBits * (Len(a) - 1) + BitLen(a[Len(a)])

\* bit i of a, bit 0 the least significant
BigBit(a, i) == (LimbAt(a, i \div LimbBits + 1) \div Pow(2, i % LimbBits)) % 2

\* a % 2^n = 0
BigLowZero(a, n) ==
  /\ \A i \in 1..Len(a) : i <= n \div LimbBits => a[i] = 0
  /\ LimbAt(a, n \div LimbBits + 1) % Pow(2, n % LimbBits) = 0

\* the number of zero bits below the lowest 1 bit of the limb n > 0
RECURSIVE TrailingZeros(_)
TrailingZeros(n) == IF n % 2 = 1 THEN 0 ELSE 1 + TrailingZeros(n \div 2)

\* the number of zero bits below the lowest 1 bit of a > 0
BigTrailingZeros(a) ==
  Bind(CHOOSE i \in 1..Len(a) : a[i] # 0 /\ \A j \in 1..(i - 1) : a[j] = 0,
       LAMBDA l : LimbBits * (l - 1) + TrailingZeros(a[l]))

\* 1 as a natural when b holds, 0 when not
BigOfBool(b) == IF b THEN <<1>> ELSE <<>>

\* 2 * a, plus 1 when bit holds
BigDouble(a, bit) ==
  Bind(BigMulSmall(a, 2), LAMBDA d : BigAdd(d, BigOfBool(bit)))

\* the step of DivBitStep once the quotient bit ge and the remainder r that
\* it leaves are known
DivBitNext(a, s, ge, r) ==
  [q |-> BigDouble(s.q, ge),
   r |-> IF s.j = 0 THEN r ELSE BigDouble(r, BigBit(a, s.j - 1) = 1),
   j |-> s.j - 1]

\* one bit of a \div b by long division: s.r the remainder so far, s.j the
\* number of bits of a still to bring down
DivBitStep(a, b, s) ==
  Bind(BigCmp(s.r, b) >= 0,
       LAMBDA ge : Bind(IF ge THEN BigSub(s.r, b) ELSE s.r,
                        LAMBDA r : DivBitNext(a, s, ge, r)))

\* long division of a by b, BigBitLen(a) - BigBitLen(b) = k >= 0
BigLongDiv(a, b, k) ==
  Bind(Iterate(LAMBDA t : DivBitStep(a, b, t),
               [q |-> <<>>, r |-> BigShr(a, k), j |-> k], k + 1),
       LAMBDA s : [q |-> s.q, r |-> s.r])

\* quotient and remainder of a by b > 0
BigDivMod(a, b) ==
  IF Len(b) = 1
    THEN Bind(BigDivSmall(a, b[1]), LAMBDA d : [q |-> d.q, r |-> BigOfInt(d.r)])
  ELSE IF BigCmp(a, b) < 0 THEN [q |-> <<>>, r |-> a]
  ELSE Bind(BigBitLen(a) - BigBitLen(b), LAMBDA k : BigLongDiv(a, b, k))

\* one decimal digit of s.a, the least significant first
DigitStep(s) ==
  IF Len(s.a) = 0 THEN s
  ELSE Bind(BigDivSmall(s.a, 10),
            LAMBDA d : [a |-> d.q, out |-> <<48 + d.r>> \o s.out])

\* the decimal digits of a natural as ASCII bytes, "0" for 0
BigDigits(a) ==
  IF Len(a) = 0 THEN <<48>>
  ELSE Iterate(DigitStep, [a |-> a, out |-> <<>>],
               (BigBitLen(a) * 30103) \div 100000 + 1).out

\* ----------------------------------------------------------------- float64
\* A float64 is NaN, an infinity, a zero (cls "fin", m = 0) or the finite
\* number m * 2^e with m odd; neg is the sign bit.
Float(cls, neg, m, e) == [cls |-> cls, neg |-> neg, m |-> m, e |-> e]

NaN == Float("nan", FALSE, <<>>, 0)

Inf(neg) == Float("inf", neg, <<>>, 0)

Zero(neg) == Float("fin", neg, <<>>, 0)

IsNaN(x) == x.cls = "nan"

IsInf(x, neg) == x.cls = "inf" /\ x.neg = neg

IsZero(x) == x.cls = "fin" /\ Len(x.m) = 0

\* q * 2^L with the sign neg, q a natural of at most 53 bits
Dyadic(neg, q, L) ==
  IF Len(q) = 0 THEN Zero(neg)
  ELSE IF q[1] % 2 = 1 THEN Float("fin", neg, q, L)
  ELSE Bind(BigTrailingZeros(q),
            LAMBDA tz : Float("fin", neg, BigShr(q, tz), L + tz))

\* 1.7976931348623157e308 = (2^53 - 1) * 2^971
MaxFloat64 == Float("fin", FALSE, <<32767, 32767, 32767, 255>>, 971)

\* 4.9e-324 = 2^-1074
SmallestNonzeroFloat64 == Float("fin", FALSE, <<1>>, -1074)

\* the exponent of the last place of a float64 whose leading bit is 2^E
LastPlace(E) == Bind(E - 52, LAMBDA L : IF L < -1074 THEN -1074 ELSE L)

\* N / M >= 2^bl
LeadingGE(N, M, bl) ==
  IF bl >= 0 THEN Bind(BigShl(M, bl), LAMBDA m : BigCmp(N, m) >= 0)
  ELSE Bind(BigShl(N, -bl), LAMBDA n : BigCmp(n, M) >= 0)

\* the exponent of the leading bit of N / M, N > 0
LeadingExp(N, M) ==
  Bind(BigBitLen(N) - BigBitLen(M),
       LAMBDA bl : IF LeadingGE(N, M, bl) THEN bl ELSE bl - 1)

\* q, or q + 1 when the remainder r of the division by den is more than a
\* half of den, or a half of it and q is odd
NearestEven(q, r, den) ==
  Bind(BigMulSmall(r, 2),
       LAMBDA r2 : Bind(BigCmp(r2, den),
                        LAMBDA c : IF c > 0 \/ (c = 0 /\ BigBit(q, 0) = 1)
                                     THEN BigAdd(q, <<1>>) ELSE q))

\* num / den rounded to the nearest natural, a tie to the even one
BigDivNearest(num, den) ==
  Bind(BigDivMod(num, den), LAMBDA d : NearestEven(d.q, d.r, den))

\* (N / M) * 2^s rounded to the nearest natural
ScaledNearest(N, M, s) ==
  IF s >= 0 THEN Bind(BigShl(N, s), LAMBDA num : BigDivNearest(num, M))
  ELSE Bind(BigShl(M, -s), LAMBDA den : BigDivNearest(N, den))

\* q * 2^L, an infinity from 2^1024 on
Overflowing(neg, q, L) ==
  IF BigBitLen(q) + L > 1024 THEN Inf(neg) ELSE Dyadic(neg, q, L)

\* (N / M) * 2^e0 rounded at the place L
RoundAt(neg, N, M, e0, L) ==
  Bind(ScaledNearest(N, M, e0 - L), LAMBDA q : Overflowing(neg, q, L))

\* (N / M) * 2^e0 rounded to a float64: the quotient is cut at the last
\* place of the result and rounded to nearest, a tie to the even mantissa
RoundInexact(neg, N, M, e0) ==
  Bind(LastPlace(e0 + LeadingExp(N, M)), LAMBDA L : RoundAt(neg, N, M, e0, L))

\* q * 2^e0 is a float64: q has at most 53 bits and the exponent is in range
Representable(q, e0) ==
  /\ e0 >= -1074
  /\ Bind(BigBitLen(q), LAMBDA n : n <= 53 /\ n + e0 <= 1024)

\* the division of N by the limb k, d, tells whether (N / k) * 2^e0 is a
\* float64 as it stands
RoundSmall(neg, N, k, e0, d) ==
  IF d.r = 0 /\ Representable(d.q, e0) THEN Dyadic(neg, d.q, e0)
  ELSE RoundInexact(neg, N, <<k>>, e0)

\* The float64 nearest to (N / M) * 2^e0 with the sign neg, N and M naturals,
\* M > 0; an infinity from 2^1024 on.
RoundFloat(neg, N, M, e0) ==
  IF Len(N) = 0 THEN Zero(neg)
  ELSE IF Len(M) = 1
    THEN Bind(BigDivSmall(N, M[1]),
              LAMBDA d : RoundSmall(neg, N, M[1], e0, d))
  ELSE RoundInexact(neg, N, M, e0)

\* float64(n) of an int
float64(n) ==
  Bind(BigOfInt(IF n < 0 THEN -n ELSE n),
       LAMBDA a : RoundFloat(n < 0, a, <<1>>, 0))

\* the float64 constant 10
Ten == Float("fin", FALSE, <<5>>, 1)

\* -1, 0, 1 as x.m * 2^x.e is below, equal to, above y.m * 2^y.e
CmpAligned(x, y) ==
  IF x.e >= y.e THEN Bind(BigShl(x.m, x.e - y.e), LAMBDA a : BigCmp(a, y.m))
  ELSE Bind(BigShl(y.m, y.e - x.e), LAMBDA b : BigCmp(x.m, b))

\* the exponent of the leading bit of x, plus one
TopExp(x) == BigBitLen(x.m) + x.e

\* -1, 0, 1 as |x| < |y|, |x| = |y|, |x| > |y| for finite x and y
CmpAbs(x, y) ==
  IF Len(x.m) = 0 \/ Len(y.m) = 0
    THEN (IF Len(x.m) = Len(y.m) THEN 0 ELSE IF Len(x.m) = 0 THEN -1 ELSE 1)
  ELSE Bind(TopExp(x) - TopExp(y),
            LAMBDA d : IF d < 0 THEN -1 ELSE IF d > 0 THEN 1
                       ELSE CmpAligned(x, y))

\* x < y on float64 (false when either is NaN; -0 = +0)
FLess(x, y) ==
  IF IsNaN(x) \/ IsNaN(y) THEN FALSE
  ELSE IF x.cls = "inf" THEN x.neg /\ ~IsInf(y, TRUE)
  ELSE IF y.cls = "inf" THEN ~y.neg
  ELSE IF IsZero(x) /\ IsZero(y) THEN FALSE
  ELSE IF x.neg # y.neg THEN x.neg
  ELSE IF x.neg THEN CmpAbs(x, y) > 0
  ELSE CmpAbs(x, y) < 0

\* math.Min
mathMin(x, y) ==
  IF IsInf(x, TRUE) \/ IsInf(y, TRUE) THEN Inf(TRUE)
  ELSE IF IsNaN(x) \/ IsNaN(y) THEN NaN
  ELSE IF IsZero(x) /\ IsZero(y) THEN (IF x.neg THEN x ELSE y)
  ELSE IF FLess(x, y) THEN x ELSE y

\* math.Max
mathMax(x, y) ==
  IF IsInf(x, FALSE) \/ IsInf(y, FALSE) THEN Inf(FALSE)
  ELSE IF IsNaN(x) \/ IsNaN(y) THEN NaN
  ELSE IF IsZero(x) /\ IsZero(y) THEN (IF x.neg THEN y ELSE x)
  ELSE IF FLess(y, x) THEN x ELSE y

\* a - b with the sign of the larger, a * 2^e with the sign xneg and b * 2^e
\* with the other sign; +0 when they cancel
DiffAligned(xneg, a, b, e, c) ==
  IF c = 0 THEN Zero(FALSE)
  ELSE Bind(IF c > 0 THEN BigSub(a, b) ELSE BigSub(b, a),
            LAMBDA n : RoundFloat(IF c > 0 THEN xneg ELSE ~xneg, n, <<1>>, e))

\* a * 2^e with the sign xneg plus b * 2^e with the sign yneg
AddAligned(xneg, a, yneg, b, e) ==
  IF xneg = yneg
    THEN Bind(BigAdd(a, b), LAMBDA n : RoundFloat(xneg, n, <<1>>, e))
  ELSE Bind(BigCmp(a, b), LAMBDA c : DiffAligned(xneg, a, b, e, c))

\* x + y for finite x and y, not 0, e the smaller of their exponents
AddAt(x, y, e) ==
  Bind(BigShl(x.m, x.e - e),
       LAMBDA a : Bind(BigShl(y.m, y.e - e),
                       LAMBDA b : AddAligned(x.neg, a, y.neg, b, e)))

\* x + y on float64
FAdd(x, y) ==
  IF IsNaN(x) \/ IsNaN(y) THEN NaN
  ELSE IF x.cls = "inf" THEN (IF y.cls = "inf" /\ x.neg # y.neg THEN NaN ELSE x)
  ELSE IF y.cls = "inf" THEN y
  ELSE IF IsZero(x) /\ IsZero(y) THEN Zero(x.neg /\ y.neg)
  ELSE IF IsZero(x) THEN y
  ELSE IF IsZero(y) THEN x
  ELSE AddAt(x, y, IF x.e < y.e THEN x.e ELSE y.e)

\* x * y on float64
FMul(x, y) ==
  IF IsNaN(x) \/ IsNaN(y) THEN NaN
  ELSE IF x.cls = "inf" \/ y.cls = "inf"
    THEN (IF IsZero(x) \/ IsZero(y) THEN NaN ELSE Inf(x.neg # y.neg))
  ELSE Bind(BigMul(x.m, y.m),
            LAMBDA n : RoundFloat(x.neg # y.neg, n, <<1>>, x.e + y.e))

\* x / y on float64
FDiv(x, y) ==
  IF IsNaN(x) \/ IsNaN(y) THEN NaN
  ELSE IF x.cls = "inf" THEN (IF y.cls = "inf" THEN NaN ELSE Inf(x.neg # y.neg))
  ELSE IF y.cls = "inf" THEN Zero(x.neg # y.neg)
  ELSE IF IsZero(y) THEN (IF IsZero(x) THEN NaN ELSE Inf(x.neg # y.neg))
  ELSE RoundFloat(x.neg # y.neg, x.m, y.m, x.e - y.e)

\* math.Round: the nearest integer, a half away from zero
mathRound(x) ==
  IF x.cls # "fin" \/ x.e >= 0 THEN x
  ELSE Bind(BigShr(x.m, -x.e),
            LAMBDA t : Bind(BigAdd(t, BigOfBool(BigBit(x.m, -x.e - 1) = 1)),
                            LAMBDA q : Dyadic(x.neg, q, 0)))

\* n \div 2^k, k > 0, rounded to the nearest natural, a tie to the even one
BigShrNearest(n, k, q) ==
  IF BigBit(n, k - 1) = 1 /\ (~BigLowZero(n, k - 1) \/ BigBit(q, 0) = 1)
    THEN BigAdd(q, <<1>>)
  ELSE q

\* |x| * 10 rounded to a natural, a tie to the even one, x finite
RoundedTenths(x) ==
  Bind(BigMulSmall(x.m, 10),
       LAMBDA n : IF x.e >= 0 THEN BigShl(n, x.e)
                  ELSE Bind(BigShr(n, -x.e),
                            LAMBDA q : BigShrNearest(n, -x.e, q)))

\* the text of t tenths: digits, a point, one digit
TenthsDigits(t) == BigDigits(t.q) \o <<46, 48 + t.r>>

\* fmt.Sprintf("%.1f", x): the text
Sprintf(x) ==
  IF IsNaN(x) THEN <<78, 97, 78>>
  ELSE IF x.cls = "inf" THEN <<(IF x.neg THEN 45 ELSE 43), 73, 110, 102>>
  ELSE (IF x.neg THEN <<45>> ELSE <<>>)
         \o Bind(RoundedTenths(x),
                 LAMBDA n : Bind(BigDivSmall(n, 10), TenthsDigits))

\* ------------------------------------------------------- strconv.ParseFloat
IsDigit(c) == c \in 48..57

AllDigits(s) == \A i \in 1..Len(s) : IsDigit(s[i])

\* strconv.lower: c | ('x' - 'X'), the byte with the bit 32 set
Lower(c) == IF (c \div 32) % 2 = 1 THEN c ELSE c + 32

\* commonPrefixLenIgnoreCase: an upper-case letter becomes the lower-case
\* one, any other byte stays
FoldCase(c) == IF c \in 65..90 THEN c + 32 ELSE c

LowerStr(s) == [i \in 1..Len(s) |-> FoldCase(s[i])]

IsHexLetter(c) == Lower(c) \in 97..102

\* the value of a string of digits of the base, the most significant first:
\* s.i the digits read, s.v their value
DigitStepOf(str, base, s) ==
  LET c == str[s.i + 1]
      d == IF IsDigit(c) THEN c - 48 ELSE Lower(c) - 87
  IN  [i |-> s.i + 1,
       v |-> Bind(BigMulSmall(s.v, base), LAMBDA v : BigAdd(v, BigOfInt(d)))]

\* the value of a string of few digits, as an integer
RECURSIVE SmallValue(_, _)
SmallValue(s, base) ==
  IF Len(s) = 0 THEN 0
  ELSE SmallValue(SubSeq(s, 1, Len(s) - 1), base) * base
         + (IF IsDigit(s[Len(s)]) THEN s[Len(s)] - 48 ELSE Lower(s[Len(s)]) - 87)

DigitsValue(s) ==
  IF Len(s) <= 9 THEN BigOfInt(SmallValue(s, 10))
  ELSE Iterate(LAMBDA t : DigitStepOf(s, 10, t), [i |-> 0, v |-> <<>>],
               Len(s)).v

HexValue(s) ==
  IF Len(s) <= 7 THEN BigOfInt(SmallValue(s, 16))
  ELSE Iterate(LAMBDA t : DigitStepOf(s, 16, t), [i |-> 0, v |-> <<>>],
               Len(s)).v

\* the number of digits of s from its first digit that is not "0" on
SignificantLen(s) ==
  IF \A i \in 1..Len(s) : s[i] = 48 THEN 0
  ELSE Len(s) + 1 - (CHOOSE i \in 1..Len(s) :
                       s[i] # 48 /\ \A j \in 1..(i - 1) : s[j] = 48)

\* what ParseFloat returns with err == nil: the float64 v
Parsed(v) == [ok |-> TRUE, v |-> v]

\* err != nil: ErrSyntax or ErrRange
ParseError == [ok |-> FALSE, v |-> NaN]

\* a value out of range is an error (ErrRange)
InRange(v) == IF v.cls = "inf" THEN ParseError ELSE Parsed(v)

\* strconv.special: "inf", "infinity" with an optional sign, "nan" without,
\* in any case of the letters; the whole token must be consumed
special(tok) ==
  LET signed == Len(tok) > 0 /\ tok[1] \in {45, 43}
      body == LowerStr(IF signed THEN Tail(tok) ELSE tok)
  IN  IF body \in {<<105, 110, 102>>, <<105, 110, 102, 105, 110, 105, 116, 121>>}
        THEN Parsed(Inf(signed /\ tok[1] = 45))
      ELSE IF ~signed /\ body = <<110, 97, 110>> THEN Parsed(NaN)
      ELSE ParseError

\* strconv.underscoreOK from index i on; saw: the kind of the last character
RECURSIVE underscoreScan(_, _, _, _)
underscoreScan(s, i, saw, hex) ==
  IF i > Len(s) THEN saw # "_"
  ELSE IF IsDigit(s[i]) \/ (hex /\ IsHexLetter(s[i]))
    THEN underscoreScan(s, i + 1, "0", hex)
  ELSE IF s[i] = 95 THEN saw = "0" /\ underscoreScan(s, i + 1, "_", hex)
  ELSE IF saw = "_" THEN FALSE
  ELSE underscoreScan(s, i + 1, "!", hex)

\* strconv.underscoreOK: an underscore only between digits, or between a base
\* prefix and a digit
underscoreOK(tok) ==
  LET s == IF Len(tok) >= 1 /\ tok[1] \in {45, 43} THEN Tail(tok) ELSE tok
      prefix == Len(s) >= 2 /\ s[1] = 48 /\ Lower(s[2]) \in {98, 111, 120}
  IN  IF prefix THEN underscoreScan(s, 3, "0", Lower(s[2]) = 120)
      ELSE underscoreScan(s, 1, "^", FALSE)

NotUnderscore(c) == c # 95

\* readFloat's mantissa loop: the index of the first byte after the mantissa
RECURSIVE mantissaEnd(_, _, _, _)
mantissaEnd(s, i, sawdot, hex) ==
  IF i > Len(s) THEN i
  ELSE IF s[i] = 46 THEN (IF sawdot THEN i ELSE mantissaEnd(s, i + 1, TRUE, hex))
  ELSE IF IsDigit(s[i]) \/ (hex /\ IsHexLetter(s[i]))
    THEN mantissaEnd(s, i + 1, sawdot, hex)
  ELSE i

\* readFloat's exponent loop: e = e*10 + digit while e < 10000
RECURSIVE exponentValue(_)
exponentValue(s) ==
  IF Len(s) = 0 THEN 0
  ELSE LET e == exponentValue(SubSeq(s, 1, Len(s) - 1)) IN
         IF e < 10000 THEN e * 10 + (s[Len(s)] - 48) ELSE e

\* the float64 nearest to D * 10^k, D > 0: a range error when it rounds to
\* an infinity
decimalValue(neg, D, k) ==
  IF k >= 0
    THEN Bind(BigMulPow(D, 5, k),
              LAMBDA n : Bind(RoundFloat(neg, n, <<1>>, k), InRange))
  ELSE Bind(BigMulPow(<<1>>, 5, -k),
            LAMBDA d : Bind(RoundFloat(neg, D, d, k), InRange))

\* the value of the mantissa digits with the decimal exponent k, p the
\* decimal exponent of the first significant digit plus one.  A value of
\* 10^310 or more is out of range and one below 10^-330 rounds to zero,
\* whatever its digits.
decimalOf(neg, D, p, k) ==
  IF Len(D) = 0 THEN Parsed(Zero(neg))
  ELSE IF p > 310 THEN ParseError
  ELSE IF p < -330 THEN Parsed(Zero(neg))
  ELSE decimalValue(neg, D, k)

decimalFloat(neg, digits, k) ==
  Bind(DigitsValue(digits),
       LAMBDA D : decimalOf(neg, D, SignificantLen(digits) + k, k))

\* the float64 nearest to H * 2^b, H the value of the mantissa digits
hexOf(neg, H, b) ==
  IF Len(H) = 0 THEN Parsed(Zero(neg))
  ELSE IF BigBitLen(H) + b > 1025 THEN ParseError
  ELSE IF BigBitLen(H) + b < -1076 THEN Parsed(Zero(neg))
  ELSE Bind(RoundFloat(neg, H, <<1>>, b), InRange)

hexFloat(neg, digits, b) ==
  Bind(HexValue(digits), LAMBDA H : hexOf(neg, H, b))

\* strconv.readFloat and the conversion, on a token without underscores:
\* [sign] digits ['.' digits] [e [sign] digits], or
\* [sign] 0x hexdigits ['.' hexdigits] p [sign] digits; one mantissa digit at
\* least
readFloat(s) ==
  LET signed == Len(s) > 0 /\ s[1] \in {45, 43}
      neg == signed /\ s[1] = 45
      r == IF signed THEN Tail(s) ELSE s
      hex == Len(r) > 2 /\ r[1] = 48 /\ Lower(r[2]) = 120
      st == IF hex THEN 3 ELSE 1
      mend == mantissaEnd(r, st, FALSE, hex)
      mant == SubSeq(r, st, mend - 1)
      dot == IndexFrom(mant, 46, 1)
      ip == IF dot = 0 THEN mant ELSE SubSeq(mant, 1, dot - 1)
      fp == IF dot = 0 THEN <<>> ELSE Tail_from(mant, dot + 1)
      digits == ip \o fp
      hasExp == mend <= Len(r) /\ Lower(r[mend]) = (IF hex THEN 112 ELSE 101)
      es == Tail_from(r, mend + 1)
      esigned == Len(es) > 0 /\ es[1] \in {45, 43}
      ed == IF esigned THEN Tail(es) ELSE es
      e == (IF esigned /\ es[1] = 45 THEN -1 ELSE 1) * exponentValue(ed)
  IN  IF Len(digits) = 0 THEN ParseError
      ELSE IF hasExp /\ ~(Len(ed) > 0 /\ AllDigits(ed)) THEN ParseError
      ELSE IF ~hasExp /\ (hex \/ mend <= Len(r)) THEN ParseError
      ELSE IF hex
        THEN Bind(digits,
                  LAMBDA ds : hexFloat(neg, ds,
                                       (IF hasExp THEN e ELSE 0) - 4 * Len(fp)))
      ELSE Bind(digits,
                LAMBDA ds : decimalFloat(neg, ds,
                                         (IF hasExp THEN e ELSE 0) - Len(fp)))

\* strconv.atof64 on the bytes of a token
atof64(tok) ==
  IF special(tok).ok THEN special(tok)
  ELSE IF ~underscoreOK(tok) THEN ParseError
  ELSE readFloat(SelectSeq(tok, NotUnderscore))

\* strconv.ParseFloat(tok, 64); the argument is evaluated once
ParseFloat(tok) == CHOOSE p \in {atof64(s) : s \in {tok}} : TRUE

\* ------------------------------------------------------------ measurements
\* NewMeasurement's result: a Measurement, Value the float64 parsed
Measurement(station, value) ==
  [ok |-> TRUE, Station |-> station, Value |-> value]

MeasurementError == [ok |-> FALSE, Station |-> <<>>, Value |-> NaN]

\* lines 31-42 of NewMeasurement, on the tokens of the line
MeasurementOf(tokens) ==
  IF Len(tokens) # 2 THEN MeasurementError
  ELSE CHOOSE m \in {IF ~p.ok THEN MeasurementError
                     ELSE Measurement(tokens[1], p.v) :
                     p \in {ParseFloat(tokens[2])}} : TRUE

\* NewMeasurement: the record, or an error; the line is split once
NewMeasurement(s) ==
  CHOOSE m \in {MeasurementOf(tokens) : tokens \in {Split(s, SEMI)}} : TRUE

NewStationStats ==
  [Min |-> MaxFloat64, Max |-> SmallestNonzeroFloat64, Sum |-> Zero(FALSE),
   Count |-> 0]

\* an update that leaves the count as it was
Updated_CountKept(stats, m) ==
  [Min |-> mathMin(stats.Min, m.Value),
   Max |-> mathMax(stats.Max, m.Value),
   Sum |-> FAdd(stats.Sum, m.Value),
   Count |-> stats.Count]

\* the read-modify part of StatsMap.Set: the aggregate it stores back
Updated(stats, m) ==
  [Min |-> mathMin(stats.Min, m.Value),
   Max |-> mathMax(stats.Max, m.Value),
   Sum |-> FAdd(stats.Sum, m.Value),
   Count |-> stats.Count + 1]

\* ----------------------------------------------------------------- report
\* math.Round(x*10) / 10 of String()
RoundedToTenth(x) ==
  Bind(FMul(x, Ten), LAMBDA p : Bind(mathRound(p), LAMBDA r : FDiv(r, Ten)))

\* Sprintf("%.1f", math.Round(x*10)/10) of a Min or Max field
FormatBound(x) == Bind(RoundedToTenth(x), Sprintf)

\* Sprintf("%.1f", sum/float64(s.Count)) with sum = math.Round(s.Sum*10)/10
FormatMean(Sum, Count) ==
  Bind(RoundedToTenth(Sum),
       LAMBDA sum : Bind(float64(Count),
                         LAMBDA n : Bind(FDiv(sum, n), Sprintf)))

\* StationStats.String: the three printed numbers "mn/mean/mx"
String(s) ==
  [mn |-> FormatBound(s.Min), mean |-> FormatMean(s.Sum, s.Count),
   mx |-> FormatBound(s.Max)]

\* sort.Strings: insertion into an ascending sequence
RECURSIVE Insert(_, _)
Insert(sorted, k) ==
  IF Len(sorted) = 0 THEN <<k>>
  ELSE IF StrLess(k, sorted[1]) THEN <<k>> \o sorted
  ELSE <<sorted[1]>> \o Insert(Tail(sorted), k)

\* the keys left in the order Range appended them
SortStrings_NoSort(keys) == keys

RECURSIVE SortStrings(_)
SortStrings(keys) ==
  IF Len(keys) = 0 THEN <<>>
  ELSE Insert(SortStrings(SubSeq(keys, 1, Len(keys) - 1)), keys[Len(keys)])

\* the orders in which sync.Map.Range may visit the keys of a map
RangeOrders(m) ==
  LET K == DOMAIN m
      n == Cardinality(K)
  IN  {o \in [1..n -> K] : \A i, j \in 1..n : i # j => o[i] # o[j]}

\* lines 161-175: the keys as Range appended them, sorted, one entry per key
BuildReport(m, order) ==
  LET keys == SortStrings(order) IN
    [i \in 1..Len(keys) |-> [key |-> keys[i], val |-> String(m[keys[i]])]]

\* ------------------------------------------------------------------ inputs
\* the lines an input is made of:
\* "a;1"  "a;-2"  "b;.04"  "ab;-1"  "ax"  "a;x"  "a;1;2"  ""  "a;2.5"
\* ("a;-2" and "a;2.5" have the mean 0.25, a tie between 0.2 and 0.3; 0.04
\* is no float64, and two of it have a sum that rounds to the next tenth)
LineSet ==
  { <<97, 59, 49>>, <<97, 59, 45, 50>>, <<98, 59, 46, 48, 52>>,
    <<97, 98, 59, 45, 49>>, <<97, 120>>, <<97, 59, 120>>,
    <<97, 59, 49, 59, 50>>, <<>>, <<97, 59, 50, 46, 53>> }

LineSeqs == UNION {[1..n -> LineSet] : n \in 0..MaxLines}

\* the lines joined by the terminator; term: the last line is terminated too
RECURSIVE JoinLines(_, _)
JoinLines(ls, term) ==
  IF Len(ls) = 0 THEN <<>>
  ELSE IF Len(ls) = 1 THEN (IF term THEN ls[1] \o <<NL>> ELSE ls[1])
  ELSE ls[1] \o <<NL>> \o JoinLines(Tail(ls), term)

\* the inputs: at most MaxLines lines in at most MaxBytes bytes
Files ==
  {f \in {JoinLines(ls, term) : ls \in LineSeqs, term \in BOOLEAN} :
     Len(f) <= MaxBytes}

\* the lines a chunk of these inputs can hold: their lines, and what is left
\* of a line when the bytes after it are dropped
ChunkLines == UNION {{SubSeq(l, 1, n) : n \in 0..Len(l)} : l \in LineSet}

\* NewMeasurement on each of these lines
MeasurementTable == [l \in ChunkLines |-> NewMeasurement(l)]

\* line 147: m, err := NewMeasurement(line); looked up for the lines of the
\* table
MeasurementAt(line) ==
  IF line \in ChunkLines THEN MeasurementTable[line] ELSE NewMeasurement(line)

\* ------------------------------------------------------------------- state
VARIABLES
  file,       \* the bytes the input yields before it ends
  mode,       \* "ok": ends with io.EOF; "readerr": ends with a read error;
              \* "openfail": os.Open failed, f is nil
  blockSize,  \* len of a new pooled buffer (512*1024 in the source)
  pool,       \* bufferPool: the buffers put back and not taken again
  pc,         \* main goroutine: "open", "get" (line 111), "read" (112),
              \* "rest" (127), "add" (135), "go" (136), "wait", "report",
              \* "done"
  cur,        \* main goroutine: buf of the loop iteration it is in
  rpos,       \* bufio.Reader: file offset of its next unread byte
  fpos,       \* bufio.Reader: file offset the underlying file has reached
  workers,    \* the goroutines started so far, in dispatch order
  wg,         \* the WaitGroup counter
  data,       \* stats.data: key -> StationStats
  stdout      \* what the main goroutine has printed

vars ==
  <<file, mode, blockSize, pool, pc, cur, rpos, fpos, workers, wg, data,
    stdout>>

\* buf outside the loop body
NoBuf == [buf |-> <<>>, arr |-> 0, len |-> 0, cap |-> 0]

EmptyMap == [k \in {} |-> NewStationStats]

Init ==
  /\ mode \in {"ok", "readerr", "openfail"}
  /\ file \in (IF mode = "openfail" THEN {<<>>} ELSE Files)
  /\ blockSize \in 1..MaxBlock
  /\ pool = {}
  /\ pc = "open"
  /\ cur = NoBuf
  /\ rpos = 0
  /\ fpos = 0
  /\ workers = <<>>
  /\ wg = 0
  /\ data = EmptyMap
  /\ stdout = <<>>

\* ------------------------------------------------------------ bufio.Reader
\* what the underlying file returns with zero bytes once its bytes are used up
EndErr == IF mode = "ok" THEN "EOF" ELSE "ERR"

\* r.Read(buf) with len(buf) = size and the reader at (r, f): the buffered
\* bytes if there are any, else one read of the file (straight into buf when
\* buf is at least as large as the reader's own buffer)
BufioRead(r, f, size) ==
  IF r = f THEN
    IF size >= defaultBufSize THEN
      LET n == Min2(size, Len(file) - f) IN
        [n |-> n, r |-> r + n, f |-> f + n]
    ELSE
      LET k == Min2(defaultBufSize, Len(file) - f)
          n == Min2(size, k)
      IN  [n |-> n, r |-> r + n, f |-> f + k]
  ELSE
    LET n == Min2(size, f - r) IN
      [n |-> n, r |-> r + n, f |-> f]

\* r.ReadBytes('\n') with the reader at (r, f): the bytes from start through
\* the first terminator, refilling the reader's buffer as often as needed
RECURSIVE ReadBytes(_, _, _)
ReadBytes(start, r, f) ==
  LET i == IndexFrom(SubSeq(file, 1, f), NL, r + 1) IN
    IF i # 0 THEN
      [bytes |-> SubSeq(file, start + 1, i), err |-> "nil", r |-> i, f |-> f]
    ELSE IF f - r >= defaultBufSize THEN ReadBytes(start, f, f)
    ELSE IF f = Len(file) THEN
      [bytes |-> SubSeq(file, start + 1, f), err |-> EndErr, r |-> f, f |-> f]
    ELSE ReadBytes(start, r, f + Min2(defaultBufSize - (f - r), Len(file) - f))

\* ------------------------------------------------------------- bufferPool
\* A buffer is a slice: its backing array, its length and its capacity.  An
\* array is named after the worker that is the first to own it.
\* line 101: a new buffer, for the worker the reader starts next
NewBuffer ==
  [id |-> Len(workers) + 1, len |-> blockSize, cap |-> blockSize]

\* a Get that may also hand out the buffer of a chunk a worker still holds
Get_BufferInUse ==
  pool \cup {NewBuffer}
    \cup {[id |-> workers[w].arr, len |-> Len(workers[w].buf),
           cap |-> workers[w].cap] : w \in 1..Len(workers)}

\* bufferPool.Get(): one of the buffers put back, or a new one
Get == pool \cup {NewBuffer}

\* the pool after Get has returned b
AfterGet(b) == pool \ {b}

\* the malloc size classes up to 32768 bytes (runtime/sizeclasses.go)
SizeClasses ==
  <<8, 16, 24, 32, 48, 64, 80, 96, 112, 128, 144, 160, 176, 192, 208, 224,
    240, 256, 288, 320, 352, 384, 416, 448, 480, 512, 576, 640, 704, 768,
    896, 1024, 1152, 1280, 1408, 1536, 1792, 2048, 2304, 2688, 3072, 3200,
    3456, 4096, 4864, 5376, 6144, 6528, 6784, 6912, 8192, 9472, 9728,
    10240, 10880, 12288, 13568, 14336, 16384, 18432, 19072, 20480, 21760,
    24576, 27264, 28672, 32768>>

PageSize == 8192

\* runtime.roundupsize: the smallest size class that holds size bytes, whole
\* pages above the largest class
roundupsize(size) ==
  IF size <= SizeClasses[Len(SizeClasses)]
    THEN SizeClasses[CHOOSE i \in 1..Len(SizeClasses) :
                       /\ SizeClasses[i] >= size
                       /\ \A j \in 1..(i - 1) : SizeClasses[j] < size]
  ELSE ((size + PageSize - 1) \div PageSize) * PageSize

\* nextslicecap's loop for a slice of 256 bytes or more: grow by
\* (newcap + 3*256) / 4 until the needed length fits
RECURSIVE growBy(_, _)
growBy(newcap, need) ==
  IF newcap >= need THEN newcap
  ELSE growBy(newcap + ((newcap + 768) \div 4), need)

\* runtime.nextslicecap: the capacity asked for before rounding
nextslicecap(cap, need) ==
  IF need > 2 * cap THEN need
  ELSE IF cap < 256 THEN 2 * cap
  ELSE growBy(cap, need)

\* runtime.growslice for a []byte of capacity cap that append must grow to
\* hold need bytes: the capacity of the new array
GrowCap(cap, need) == roundupsize(nextslicecap(cap, need))

\* ---------------------------------------------------------- main goroutine
\* the goroutine of line 136 as it starts, buf the chunk it has captured
NewWorker(c) ==
  [pc |-> "decode", buf |-> c.buf, arr |-> c.arr, cap |-> c.cap,
   data |-> <<>>, lines |-> <<>>, i |-> 0,
   stats |-> NewStationStats, applied |-> {}, printed |-> <<>>]

\* lines 92-96: a failure is printed; the function goes on either way
Open ==
  /\ pc = "open"
  /\ stdout' = IF mode = "openfail"
                 THEN Append(stdout, [kind |-> "cannot open file", body |-> <<>>])
                 ELSE stdout
  /\ pc' = "get"
  /\ UNCHANGED <<file, mode, blockSize, pool, cur, rpos, fpos, workers, wg,
                 data>>

\* line 111: buf := bufferPool.Get().([]byte)
GetBuffer ==
  /\ pc = "get"
  /\ \E b \in Get :
       /\ pool' = AfterGet(b)
       /\ cur' = [buf |-> <<>>, arr |-> b.id, len |-> b.len, cap |-> b.cap]
  /\ pc' = "read"
  /\ UNCHANGED <<file, mode, blockSize, rpos, fpos, workers, wg, data, stdout>>

\* lines 112-114: n, err := r.Read(buf) with n > 0; buf = buf[:n]
ReadBlock ==
  /\ pc = "read"
  /\ \E rd \in {BufioRead(rpos, fpos, cur.len)} :
       /\ rd.n > 0
       /\ cur' = [cur EXCEPT !.buf = SubSeq(file, rpos + 1, rpos + rd.n),
                             !.len = rd.n]
       /\ rpos' = rd.r
       /\ fpos' = rd.f
  /\ pc' = "rest"
  /\ UNCHANGED <<file, mode, blockSize, pool, workers, wg, data, stdout>>

\* lines 112-118: n == 0 and io.EOF
ReadEOF ==
  /\ pc = "read"
  /\ BufioRead(rpos, fpos, cur.len).n = 0
  /\ EndErr = "EOF"
  /\ cur' = NoBuf
  /\ pc' = "wait"
  /\ UNCHANGED <<file, mode, blockSize, pool, rpos, fpos, workers, wg, data,
                 stdout>>

\* lines 112-122: n == 0 and another error: printed, then break
ReadError ==
  /\ pc = "read"
  /\ BufioRead(rpos, fpos, cur.len).n = 0
  /\ EndErr = "ERR"
  /\ stdout' = Append(stdout, [kind |-> "read error", body |-> <<>>])
  /\ cur' = NoBuf
  /\ pc' = "wait"
  /\ UNCHANGED <<file, mode, blockSize, pool, rpos, fpos, workers, wg, data>>

\* the rest of the line appended to the buffer c: append moves the chunk to
\* a new array when it outgrows the capacity of c
Appended(c, rest) ==
  LET buf == c.buf \o rest
      grown == Len(buf) > c.cap
  IN  [buf |-> buf,
       arr |-> IF grown THEN Len(workers) + 1 ELSE c.arr,
       len |-> Len(buf),
       cap |-> IF grown THEN GrowCap(c.cap, Len(buf)) ELSE c.cap]

\* lines 127-133: the rest of the line is read and, unless the input ended
\* in it, appended without its last byte
ReadRest ==
  /\ pc = "rest"
  /\ \E rb \in {ReadBytes(rpos, rpos, fpos)} :
       /\ rpos' = rb.r
       /\ fpos' = rb.f
       /\ cur' = IF Len(rb.bytes) > 0 /\ rb.err # "EOF"
                   THEN Appended(cur, SubSeq(rb.bytes, 1, Len(rb.bytes) - 1))
                   ELSE cur
  /\ pc' = "add"
  /\ UNCHANGED <<file, mode, blockSize, pool, workers, wg, data, stdout>>

\* line 135: wg.Add(1)
Add ==
  /\ pc = "add"
  /\ wg' = wg + 1
  /\ pc' = "go"
  /\ UNCHANGED <<file, mode, blockSize, pool, cur, rpos, fpos, workers, data,
                 stdout>>

\* line 136: the go statement; the loop starts over
Go ==
  /\ pc = "go"
  /\ workers' = Append(workers, NewWorker(cur))
  /\ cur' = NoBuf
  /\ pc' = "get"
  /\ UNCHANGED <<file, mode, blockSize, pool, rpos, fpos, wg, data, stdout>>

\* a Wait that does not wait
WaitReturns_NoBarrier == TRUE

\* wg.Wait() returns
WaitReturns == wg = 0

Wait ==
  /\ pc = "wait"
  /\ WaitReturns
  /\ pc' = "report"
  /\ UNCHANGED <<file, mode, blockSize, pool, cur, rpos, fpos, workers, wg,
                 data, stdout>>

\* lines 161-176
Report ==
  /\ pc = "report"
  /\ \E order \in RangeOrders(data) :
       stdout' = Append(stdout, [kind |-> "report", body |-> BuildReport(data, order)])
  /\ pc' = "done"
  /\ UNCHANGED <<file, mode, blockSize, pool, cur, rpos, fpos, workers, wg,
                 data>>

\* ----------------------------------------------------------- chunk workers
Line(w) == workers[w].lines[workers[w].i]

InLoop(w) ==
  /\ w \in 1..Len(workers)
  /\ workers[w].pc = "loop"
  /\ workers[w].i <= Len(workers[w].lines)

\* line 138: data := string(buf), a copy of the bytes
Decode(w) ==
  /\ w \in 1..Len(workers)
  /\ workers[w].pc = "decode"
  /\ workers' = [workers EXCEPT ![w].data = workers[w].buf, ![w].pc = "put"]
  /\ UNCHANGED <<file, mode, blockSize, pool, pc, cur, rpos, fpos, wg, data,
                 stdout>>

\* lines 139-140: bufferPool.Put(buf), then the copy is split into lines
Put(w) ==
  /\ w \in 1..Len(workers)
  /\ workers[w].pc = "put"
  /\ pool' = pool \cup {[id |-> workers[w].arr, len |-> Len(workers[w].buf),
                         cap |-> workers[w].cap]}
  /\ workers' = [workers EXCEPT ![w].lines = Split(workers[w].data, NL),
                                ![w].i = 1, ![w].pc = "loop"]
  /\ UNCHANGED <<file, mode, blockSize, pc, cur, rpos, fpos, wg, data,
                 stdout>>

\* lines 144-146 and 155
LineEmpty(w) ==
  /\ InLoop(w)
  /\ Len(Line(w)) = 0
  /\ workers' = [workers EXCEPT ![w].pc = "done"]
  /\ wg' = wg - 1
  /\ UNCHANGED <<file, mode, blockSize, pool, pc, cur, rpos, fpos, data,
                 stdout>>

\* a parse error that ends the goroutine without wg.Done()
LineError_NoDone(w) ==
  /\ InLoop(w)
  /\ Len(Line(w)) > 0
  /\ ~MeasurementAt(Line(w)).ok
  /\ workers' = [workers EXCEPT ![w].pc = "done",
                                ![w].printed = Append(@, Line(w))]
  /\ UNCHANGED <<file, mode, blockSize, pool, pc, cur, rpos, fpos, wg, data,
                 stdout>>

\* lines 147-152 and 155
LineError(w) ==
  /\ InLoop(w)
  /\ Len(Line(w)) > 0
  /\ ~MeasurementAt(Line(w)).ok
  /\ workers' = [workers EXCEPT ![w].pc = "done",
                                ![w].printed = Append(@, Line(w))]
  /\ wg' = wg - 1
  /\ UNCHANGED <<file, mode, blockSize, pool, pc, cur, rpos, fpos, data,
                 stdout>>

\* the range loop is over: line 155
LoopEnd(w) ==
  /\ w \in 1..Len(workers)
  /\ workers[w].pc = "loop"
  /\ workers[w].i > Len(workers[w].lines)
  /\ workers' = [workers EXCEPT ![w].pc = "done"]
  /\ wg' = wg - 1
  /\ UNCHANGED <<file, mode, blockSize, pool, pc, cur, rpos, fpos, data,
                 stdout>>

\* m.data.LoadOrStore(key, NewStationStats()): the map afterwards
LoadOrStore(m, key) ==
  IF key \in DOMAIN m THEN m
  ELSE [k \in DOMAIN m \cup {key} |-> IF k = key THEN NewStationStats ELSE m[k]]

\* m.data.Store(key, stats): the map afterwards
Store(m, key, stats) ==
  [k \in DOMAIN m \cup {key} |-> IF k = key THEN stats ELSE m[k]]

\* lines 147 and 78-83: the line parses; Set loads the aggregate and updates
\* its own copy
SetLoad(w) ==
  /\ InLoop(w)
  /\ Len(Line(w)) > 0
  /\ \E m \in {MeasurementAt(Line(w))} :
       /\ m.ok
       /\ data' = LoadOrStore(data, m.Station)
       /\ workers' = [workers EXCEPT ![w].pc = "store",
                                     ![w].stats = Updated(data'[m.Station], m)]
  /\ UNCHANGED <<file, mode, blockSize, pool, pc, cur, rpos, fpos, wg,
                 stdout>>

\* line 84: Set stores its copy, and the loop moves on
SetStore(w) ==
  /\ w \in 1..Len(workers)
  /\ workers[w].pc = "store"
  /\ \E m \in {MeasurementAt(Line(w))} :
       data' = Store(data, m.Station, workers[w].stats)
  /\ workers' = [workers EXCEPT ![w].pc = "loop", ![w].i = @ + 1,
                                ![w].applied = @ \cup {workers[w].i}]
  /\ UNCHANGED <<file, mode, blockSize, pool, pc, cur, rpos, fpos, wg,
                 stdout>>

Next ==
  \/ Open
  \/ GetBuffer
  \/ ReadBlock
  \/ ReadEOF
  \/ ReadError
  \/ ReadRest
  \/ Add
  \/ Go
  \/ Wait
  \/ Report
  \/ \E w \in 1..Len(workers) : Decode(w)
  \/ \E w \in 1..Len(workers) : Put(w)
  \/ \E w \in 1..Len(workers) : LineEmpty(w)
  \/ \E w \in 1..Len(workers) : LineError(w)
  \/ \E w \in 1..Len(workers) : LoopEnd(w)
  \/ \E w \in 1..Len(workers) : SetLoad(w)
  \/ \E w \in 1..Len(workers) : SetStore(w)

Spec == Init /\ [][Next]_vars

\* the lines of the inputs of the fair runs: "a;1"  "a;x"  ""
FairLineSet == {<<97, 59, 49>>, <<97, 59, 120>>, <<>>}

\* the fair runs: the smallest and the largest block, inputs of these lines
FairInit ==
  /\ Init
  /\ blockSize \in {1, MaxBlock}
  /\ \A i \in 1..Len(Split(file, NL)) : Split(file, NL)[i] \in FairLineSet

\* The Go scheduler runs every runnable goroutine again and again, and no
\* step of the program waits for anything but wg.Wait(): while some goroutine
\* can take a step, a step is taken.
FairSpec == FairInit /\ [][Next]_vars /\ WF_vars(Next)

TypeOK ==
  /\ pc \in {"open", "get", "read", "rest", "add", "go", "wait", "report",
            "done"}
  /\ rpos <= fpos
  /\ fpos <= Len(file)
  /\ wg >= 0

\* ------------------------------------------------- what the input contains
IsRecord(l) == NewMeasurement(l).ok

Hundred == Float("fin", FALSE, <<25>>, 2)

\* the float64 nearest to h hundredths
Fin(h) == Bind(float64(h), LAMBDA n : FDiv(n, Hundred))

RECURSIVE IntOfBig(_)
IntOfBig(a) == IF Len(a) = 0 THEN 0 ELSE a[1] + Limb * IntOfBig(Tail(a))

\* |x| * 100 rounded to a natural, x finite
RoundedHundredths(x) ==
  Bind(BigMulSmall(x.m, 100),
       LAMBDA n : IF x.e >= 0 THEN BigShl(n, x.e)
                  ELSE Bind(BigShr(n, -x.e),
                            LAMBDA q : BigShrNearest(n, -x.e, q)))

\* a finite float64 in hundredths, to the nearest hundredth: the number of
\* hundredths the text of an input value stands for, and for a sum of input
\* values the sum of these numbers
Hundredths(x) ==
  Bind(RoundedHundredths(x),
       LAMBDA n : (IF x.neg THEN -1 ELSE 1) * IntOfBig(n))

\* the text of n >= 0 tenths with the sign neg
TenthsText(neg, n) ==
  (IF neg THEN <<45>> ELSE <<>>) \o BigDigits(BigOfInt(n \div 10))
    \o <<46, 48 + (n % 10)>>

\* a printed number has the form [-]digits.digit
IsNumberText(t) ==
  LET u == IF Len(t) > 0 /\ t[1] = 45 THEN Tail(t) ELSE t IN
    /\ Len(u) >= 3
    /\ u[Len(u) - 1] = 46
    /\ \A i \in 1..Len(u) : i # Len(u) - 1 => IsDigit(u[i])

\* the tenths a printed number stands for
TextTenths(t) ==
  LET neg == t[1] = 45
      u == IF neg THEN Tail(t) ELSE t
      n == 10 * IntOfBig(DigitsValue(SubSeq(u, 1, Len(u) - 2))) + (u[Len(u)] - 48)
  IN  IF neg THEN -n ELSE n

NonEmpty(l) == Len(l) > 0

FileLines == SelectSeq(Split(file, NL), NonEmpty)

\* every line has the form key;value (after the last terminator comes nothing)
ValidInput ==
  LET all == Split(file, NL) IN
    \A i \in 1..Len(all) : IsRecord(all[i]) \/ (i = Len(all) /\ Len(all[i]) = 0)

\* every line, the last one too, ends with the terminator
Terminated == Len(file) = 0 \/ file[Len(file)] = NL

Records == SelectSeq(FileLines, IsRecord)

FileKeys == {NewMeasurement(Records[i]).Station : i \in 1..Len(Records)}

ValuesOf(k) ==
  {Hundredths(NewMeasurement(Records[i]).Value) :
     i \in {j \in 1..Len(Records) : NewMeasurement(Records[j]).Station = k}}

TrueCount(k) ==
  Cardinality({i \in 1..Len(Records) : NewMeasurement(Records[i]).Station = k})

RECURSIVE SumUpTo(_, _)
SumUpTo(k, n) ==
  IF n = 0 THEN 0
  ELSE SumUpTo(k, n - 1)
       + (IF NewMeasurement(Records[n]).Station = k
            THEN Hundredths(NewMeasurement(Records[n]).Value) ELSE 0)

TrueSum(k) == SumUpTo(k, Len(Records))

TrueMin(k) == CHOOSE v \in ValuesOf(k) : \A u \in ValuesOf(k) : v <= u

TrueMax(k) == CHOOSE v \in ValuesOf(k) : \A u \in ValuesOf(k) : v >= u

HasReport == \E i \in 1..Len(stdout) : stdout[i].kind = "report"

\* the entries of the report, once it is printed
ReportBody == stdout[Len(stdout)].body

Reported == pc = "done"

BarrierPassed == pc \in {"report", "done"}

AllDispatched == pc \in {"wait", "report", "done"}

\* the non-empty lines of the chunks, in dispatch order
RECURSIVE DeliveredUpTo(_)
DeliveredUpTo(n) ==
  IF n = 0 THEN <<>>
  ELSE DeliveredUpTo(n - 1) \o SelectSeq(Split(workers[n].buf, NL), NonEmpty)

Delivered == DeliveredUpTo(Len(workers))

\* the table one worker leaves when it runs the loop of lines 143-154 alone
RECURSIVE LoopAlone(_, _, _)
LoopAlone(lines, i, m) ==
  IF i > Len(lines) THEN m
  ELSE IF Len(lines[i]) = 0 \/ ~IsRecord(lines[i]) THEN m
  ELSE LET r == NewMeasurement(lines[i])
           loaded == LoadOrStore(m, r.Station)
       IN  LoopAlone(lines, i + 1,
                     Store(loaded, r.Station, Updated(loaded[r.Station], r)))

\* the table of a run that reads the whole input as one chunk
OneChunkTable == LoopAlone(Split(file, NL), 1, EmptyMap)

\* --------------------------------------------------------------- claims
\* C1: for a valid input the report lists, for every key, the true minimum,
\* the mean sum/count and the true maximum of the values of that key, also
\* when all its values are negative (stated for inputs whose last line is
\* terminated).
C1_ReportIsTrueMinMeanMax ==
  (Reported /\ mode = "ok" /\ ValidInput /\ Terminated) =>
    \A k \in FileKeys :
      \E i \in 1..Len(ReportBody) :
        /\ ReportBody[i].key = k
        /\ ReportBody[i].val =
             [mn |-> FormatBound(Fin(TrueMin(k))),
              mean |-> FormatMean(Fin(TrueSum(k)), TrueCount(k)),
              mx |-> FormatBound(Fin(TrueMax(k)))]

\* C2: for a valid input, once the barrier is passed the count stored for a
\* key is the number of lines of that key in the whole input, under every
\* interleaving of the workers (stated for inputs whose last line is terminated).
C2_CountIsNumberOfLines ==
  (BarrierPassed /\ mode = "ok" /\ ValidInput /\ Terminated) =>
    \A k \in FileKeys : k \in DOMAIN data /\ data[k].Count = TrueCount(k)

\* the key a worker is inside Set for
InSet(w) == workers[w].pc = "store"

SetKey(w) == MeasurementAt(Line(w)).Station

\* C3: Set is atomic per key: no worker is between its load and its store of a
\* key while another worker is between its load and its store of the same key.
C3_SetIsAtomicPerKey ==
  \A w1, w2 \in 1..Len(workers) :
    (w1 # w2 /\ InSet(w1) /\ InSet(w2)) => SetKey(w1) # SetKey(w2)

\* C4: the chunks cover the input exactly once: every line of the input, a
\* last line without terminator too, is in exactly one chunk, whole.
C4_ChunksCoverInput ==
  (AllDispatched /\ mode = "ok") => Delivered = FileLines

\* C5: the final table is the same for every block size and every
\* interleaving: it is the table of the run that reads the input as one chunk.
C5_SameTableForEveryChunking ==
  (BarrierPassed /\ mode = "ok") => data = OneChunkTable

\* C6: a malformed line is the only line skipped: a worker that is finished
\* has applied every record of its chunk (chunks that hold an empty line before
\* the record aside).
C6_OnlyMalformedLineSkipped ==
  \A w \in 1..Len(workers) :
    workers[w].pc = "done" =>
      \A i \in 1..Len(workers[w].lines) :
        (/\ IsRecord(workers[w].lines[i])
         /\ \A j \in 1..i : NonEmpty(workers[w].lines[j]))
          => i \in workers[w].applied

\* C7: the report phase starts only after every dispatched worker has
\* completed: while the table is read no worker has a Set pending or in flight.
C7_ReportAfterAllWorkers ==
  BarrierPassed => \A w \in 1..Len(workers) : workers[w].pc = "done"

C7_Witness ==
  /\ pc = "report"
  /\ Len(workers) >= 2
  /\ \E k \in DOMAIN data : data[k].Count >= 2

\* C8: after a read error no report is emitted, not even a partial one built
\* from the chunks processed so far (stated for reports that have an entry).
C8_NoReportAfterReadError ==
  mode = "readerr" =>
    ~\E i \in 1..Len(stdout) : stdout[i].kind = "report" /\ Len(stdout[i].body) > 0

\* the main goroutine is in the read loop of lines 110-157
ReadLoop == {"get", "read", "rest", "add", "go"}

\* C9: when the file cannot be opened the read loop is never entered, no chunk
\* is dispatched and no report is produced.
C9_OpenFailureAborts ==
  mode = "openfail" => (pc \notin ReadLoop /\ Len(workers) = 0 /\ ~HasReport)

\* C10: the keys of the report are in strict ascending bytewise order, none
\* twice, whatever order the workers inserted them in.
C10_ReportKeysAscending ==
  Reported =>
    \A i, j \in 1..Len(ReportBody) :
      i < j => StrLess(ReportBody[i].key, ReportBody[j].key)

\* two keys in the report, of an input that names the larger one first
C10_Witness ==
  /\ Reported
  /\ Len(ReportBody) = 2
  /\ Len(Records) >= 2
  /\ StrLess(NewMeasurement(Records[2]).Station, NewMeasurement(Records[1]).Station)

\* min <= sum/count <= max on an aggregate with count >= 1, the quotient
\* and the comparisons those of float64
MeanWithinBounds(s) ==
  /\ ~IsNaN(s.Min) /\ ~IsNaN(s.Max)
  /\ Bind(float64(s.Count),
          LAMBDA n : Bind(FDiv(s.Sum, n),
                          LAMBDA mean : /\ ~IsNaN(mean)
                                        /\ ~FLess(mean, s.Min)
                                        /\ ~FLess(s.Max, mean)))

\* a <= b on printed numbers
PrintedLeq(a, b) ==
  /\ IsNumberText(a) /\ IsNumberText(b)
  /\ TextTenths(a) <= TextTenths(b)

\* C11: every aggregate stored after at least one Set has min <= sum/count
\* <= max, under every interleaving, and every entry of the report prints a
\* minimum, a mean and a maximum in that order of size.
C11_MeanBetweenMinAndMax ==
  /\ \A k \in DOMAIN data : data[k].Count >= 1 => MeanWithinBounds(data[k])
  /\ Reported =>
       \A i \in 1..Len(ReportBody) :
         /\ PrintedLeq(ReportBody[i].val.mn, ReportBody[i].val.mean)
         /\ PrintedLeq(ReportBody[i].val.mean, ReportBody[i].val.mx)

\* n/d for n >= 0, d > 0, rounded to an integer, a tie going away from zero
RoundHalfAway(n, d) ==
  LET q == n \div d
      r == n % d
  IN  IF 2 * r < d THEN q ELSE q + 1

\* C12: the mean in the report is sum/count rounded to one decimal, a tie
\* going away from zero (0.25 is printed 0.3, -0.25 is printed -0.3).
C12_MeanRoundedHalfAway ==
  Reported =>
    \A i \in 1..Len(ReportBody) :
      LET s == data[ReportBody[i].key] IN
        s.Count >= 1 =>
          ReportBody[i].val.mean =
            TenthsText(Hundredths(s.Sum) < 0,
                       RoundHalfAway(Abs(Hundredths(s.Sum)), 10 * s.Count))

\* C13: after the first Set on a new key the stored min and the stored max are
\* both the value of that record, for a negative value too.
C13_FirstSetSeedsMinAndMax ==
  \A k \in DOMAIN data :
    data[k].Count = 1 =>
      /\ data[k].Min = data[k].Sum
      /\ data[k].Max = data[k].Sum

\* C14: an empty line in a chunk is skipped and the worker goes on: a worker
\* that is finished has applied every record of its chunk that no malformed
\* line precedes, the records after an empty line too.
C14_EmptyLineSkipped ==
  \A w \in 1..Len(workers) :
    workers[w].pc = "done" =>
      \A i \in 1..Len(workers[w].lines) :
        (/\ IsRecord(workers[w].lines[i])
         /\ \A j \in 1..i :
              NonEmpty(workers[w].lines[j]) => IsRecord(workers[w].lines[j]))
          => i \in workers[w].applied

\* C15: when the report builder reads the table, every key in it has a count
\* of at least 1 and min <= max: the fresh aggregate with count 0 that Set
\* inserts first is never what the report reads.
C15_NoEmptyAggregateReported ==
  BarrierPassed =>
    \A k \in DOMAIN data :
      data[k].Count >= 1 /\ ~FLess(data[k].Max, data[k].Min)

\* the table is read with two keys in it, each inserted by its own worker
C15_Witness ==
  /\ pc = "report"
  /\ Cardinality(DOMAIN data) = 2
  /\ Len(workers) = 2
  /\ \A w \in 1..2 : workers[w].applied # {}

\* C16: in every step the count stored for a key does not decrease, the
\* stored min does not increase and the stored max does not decrease, and a
\* store of an applied record raises the count of its key by exactly 1.
C16_AggregatesMonotone ==
  [][\A k \in DOMAIN data :
       /\ k \in DOMAIN data'
       /\ data'[k].Count >= data[k].Count
       /\ ~FLess(data[k].Min, data'[k].Min)
       /\ ~FLess(data'[k].Max, data[k].Max)
       /\ (\E w \in 1..Len(workers) : SetStore(w) /\ SetKey(w) = k)
            => data'[k].Count = data[k].Count + 1]_vars

\* a worker that holds a chunk it has not decoded yet
Undecoded(w) == workers[w].pc = "decode"

\* C17: while a worker has not decoded its chunk, the buffer of that chunk is
\* not in the pool, the reader does not hold it for its next chunk, and no
\* other undecoded chunk is in the same buffer; a buffer is in the pool only
\* when the worker it was handed to has decoded it.
C17_UndecodedBufferNotShared ==
  \A w \in 1..Len(workers) :
    Undecoded(w) =>
      /\ \A b \in pool : b.id # workers[w].arr
      /\ pc \in {"read", "rest", "add", "go"} => cur.arr # workers[w].arr
      /\ \A v \in 1..Len(workers) :
           (v # w /\ Undecoded(v)) => workers[v].arr # workers[w].arr

\* the reader has taken the buffer the first worker put back and handed it,
\* with another chunk in it, to a second worker that has not decoded it yet
C17_Witness ==
  /\ Len(workers) >= 2
  /\ workers[1].pc \notin {"decode", "put"}
  /\ Undecoded(2)
  /\ workers[2].arr = workers[1].arr
  /\ workers[2].buf # workers[1].buf

\* the workers dispatched and not yet completed
ActiveWorkers == {w \in 1..Len(workers) : workers[w].pc # "done"}

\* C18: the number of workers dispatched and not yet completed never exceeds
\* the available parallelism, however many chunks the input has.
C18_ActiveWorkersBounded == Cardinality(ActiveWorkers) <= NumCPU

\* the reports printed so far
ReportCount ==
  Cardinality({i \in 1..Len(stdout) : stdout[i].kind = "report"})

\* C19: under fair scheduling every run ends: the reader leaves its loop for
\* the barrier, every dispatched worker signals completion, the barrier is
\* passed and the report is printed, once.
C19_RunTerminates ==
  /\ <>(/\ pc = "done"
        /\ \A w \in 1..Len(workers) : workers[w].pc = "done"
        /\ wg = 0
        /\ ReportCount = 1)
  /\ [](ReportCount <= 1)

\* a finished run of two workers that both went through Set
C19_Witness ==
  /\ pc = "done"
  /\ mode = "ok"
  /\ Len(workers) = 2
  /\ \A w \in 1..2 : workers[w].pc = "done" /\ workers[w].applied # {}
  /\ ReportCount = 1

\* ------------------------------------------- the sequential implementation
\* naiveImplementation (src/unnamed/part_000) reads with a new buffer of
\* 4*1024 bytes per iteration, the size of the reader's own buffer
naiveBufSize == defaultBufSize

\* StatsMap.Set on the plain map: the map afterwards
naiveSet(m, new) ==
  LET stats == IF new.Station \in DOMAIN m THEN m[new.Station]
               ELSE NewStationStats
  IN  [k \in DOMAIN m \cup {new.Station} |->
         IF k = new.Station THEN Updated(stats, new) ELSE m[k]]

\* the loop over the lines of one chunk, from line i on: the map afterwards
RECURSIVE naiveLines(_, _, _)
naiveLines(lines, i, m) ==
  IF i > Len(lines) THEN m
  ELSE IF Len(lines[i]) = 0 THEN m
  ELSE IF ~NewMeasurement(lines[i]).ok THEN m
  ELSE naiveLines(lines, i + 1, naiveSet(m, NewMeasurement(lines[i])))

\* the read loop with the reader at (r, f): the map when the loop is left
RECURSIVE naiveLoop(_, _, _)
naiveLoop(r, f, m) ==
  LET rd == BufioRead(r, f, naiveBufSize) IN
    IF rd.n = 0 THEN m
    ELSE LET block == SubSeq(file, r + 1, r + rd.n)
             rb == ReadBytes(rd.r, rd.r, rd.f)
             buf == IF rb.err # "EOF" THEN block \o rb.bytes ELSE block
         IN  naiveLoop(rb.r, rb.f, naiveLines(Split(buf, NL), 1, m))

\* the table naiveImplementation ends with on the input
naiveImplementation == naiveLoop(0, 0, EmptyMap)

\* the report it prints: the keys sorted, one entry per key
naiveReport ==
  BuildReport(naiveImplementation,
              CHOOSE o \in RangeOrders(naiveImplementation) : TRUE)

\* C20: ProcessFile ends with the table and the report naiveImplementation
\* ends with, under every interleaving (stated for valid inputs whose last
\* line is terminated).
C20_SameAsNaiveImplementation ==
  (Reported /\ mode = "ok" /\ ValidInput /\ Terminated) =>
    /\ data = naiveImplementation
    /\ ReportBody = naiveReport

====
